---- MODULE Spec2Model ----
(***************************************************************************)
(* JARVIS: the tool-calling chat orchestration of the Express server.      *)
(*                                                                         *)
(* The repository holds three rewrites of the /api/chat exchange:          *)
(*   - src/server/index.ts: the session-backed server (the turns of an     *)
(*     exchange, tool turns included, are kept in req.session.messages);   *)
(*   - src/unnamed/part_002, lines 187-1399: an earlier session-backed     *)
(*     server (tool turns are built for the second call only);             *)
(*   - src/unnamed/part_002, lines 1-186 with src/server/services/*.ts and *)
(*     src/unnamed/part_001: the database-backed server, whose             *)
(*     MistralService.getChatResponse runs the tools itself.               *)
(* Spec, SpecHistory, SpecTabs and SpecTools model the first: one page,    *)
(* a history longer than the stored window, two pages on one session, and  *)
(* the whole tool catalogue.  SpecSteps models it with every service call  *)
(* of handleToolCalls as two steps, and SpecStepsFair adds the fairness of *)
(* the event loop.  SpecLegacy models the second and SpecDb the third;     *)
(* SpecSearch models the search in the catalogue of ToolService alone and  *)
(* SpecToken the access token of the database-backed services.             *)
(* SpecSession adds logout to the first server, and SpecPage models the    *)
(* chat page that server embeds.                                           *)
(***************************************************************************)
EXTENDS Integers, Sequences, FiniteSets, TLC

\* ------------------------------------------------------------------ bounds
\* User messages sent over a run of Spec and SpecTabs.
MaxExchanges == 2
\* User messages sent over a run of SpecHistory.
HistoryExchanges == 4
\* User messages sent over a run of SpecTools.
ToolsExchanges == 1
\* User messages sent over a run of SpecDb.
DbExchanges == 1
\* Tool-call requests carried by one LLM reply.
MaxCalls == 2
\* Registry searches: query texts of up to MaxQueryLen letters (and whole
\* words), each searched MaxSearches times.
MaxQueryLen == 2
MaxSearches == 2
\* Calls of service methods over a run of SpecToken, and the exchanges they
\* are made in.
MaxServiceCalls == 3
MaxTokenExchanges == 2
\* Calls of sendMessage over a run of SpecPage.
MaxClicks == 4

\* req.session.messages = messages.slice(-10)
MaxHistory == 10

\* The requests of one session that can be in flight together: one per page
\* open on the session cookie.
Reqs == {"tab1", "tab2"}

\* The texts the user types, all different.
UserTexts == <<"m1", "m2", "m3", "m4", "m5", "m6">>

\* ------------------------------------------------------- values and turns
NoId == "none"
NoUser == [present |-> FALSE, accessToken |-> FALSE]

\* Ids the LLM provider assigns to tool calls.
CallIdSeq == <<"call_a", "call_b", "call_c", "call_d">>
CallIds == {CallIdSeq[k] : k \in 1..Len(CallIdSeq)}

SorryMessage == "Sorry, I encountered an error processing your request. Please try again later."
TroubleMessage == "I apologize, but I had trouble processing that request. Could you please try again?"

\* Keys of a tool call's argument object (those the handlers read for
\* send_email; the other keys do not change what is called).
ArgKeys == {"to", "subject", "body"}

\* A parsed argument value: an object with the given keys, or JSON null.
NullArgs == [null |-> TRUE, keys |-> {}]
ObjArgs(keys) == [null |-> FALSE, keys |-> keys]

\* The argument string of a tool call as the LLM sends it.
EmptyString == [text |-> "empty", value |-> ObjArgs({})]
Malformed == [text |-> "malformed", value |-> ObjArgs({})]
JsonText(v) == [text |-> "json", value |-> v]

UserTurn(text) ==
  [role |-> "user", content |-> text, tool_calls |-> <<>>, tool_call_id |-> NoId]

AssistantTurn(text, calls) ==
  [role |-> "assistant", content |-> text, tool_calls |-> calls, tool_call_id |-> NoId]

ToolTurn(text, id) ==
  [role |-> "tool", content |-> text, tool_calls |-> <<>>, tool_call_id |-> id]

SystemTurn ==
  [role |-> "system", content |-> "prompt", tool_calls |-> <<>>, tool_call_id |-> NoId]

\* ------------------------------------------------------ MistralService
\* JSON.parse of the argument string, {} when it is empty or does not parse.
safeParseJson(jsonString) ==
  IF jsonString.text = "json" THEN jsonString.value ELSE ObjArgs({})

\* JSON.stringify of a parsed argument value.
Stringify(value) == JsonText(value)

formatToolCalls(toolCalls) ==
  [k \in 1..Len(toolCalls) |->
     [id |-> toolCalls[k].id, name |-> toolCalls[k].name,
      arguments |-> Stringify(toolCalls[k].arguments)]]

\* The loop of formatMessages without its test on tool turns.
RECURSIVE MutFormatFrom(_, _, _)
MutFormatFrom(messages, k, lastRole) ==
  IF k > Len(messages) THEN <<>>
  ELSE IF messages[k].role = "system" THEN MutFormatFrom(messages, k + 1, lastRole)
       ELSE <<messages[k]>> \o MutFormatFrom(messages, k + 1, messages[k].role)

RECURSIVE formatFrom(_, _, _)
formatFrom(messages, k, lastRole) ==
  IF k > Len(messages) THEN <<>>
  ELSE LET msg == messages[k] IN
       IF msg.role = "system" THEN formatFrom(messages, k + 1, lastRole)
       ELSE IF msg.role = "tool" /\ lastRole # "assistant"
            THEN formatFrom(messages, k + 1, lastRole)
            ELSE <<msg>> \o formatFrom(messages, k + 1, msg.role)

formatMessages(messages) == formatFrom(messages, 1, "null")

\* A request body whose messages are the formatted turns alone.
MutRequestBody(messages, tools) ==
  [messages |-> formatMessages(messages), tools |-> tools]

\* The body of the request to the chat-completions endpoint.
RequestBody(messages, tools) ==
  [messages |-> <<SystemTurn>> \o formatMessages(messages),
   tools |-> tools]

\* What the chat-completions call comes back with.  kind is one of
\*   "nokey"     MISTRAL_API_KEY is not set: no request is sent
\*   "network"   fetch rejects
\*   "status"    the response is not ok
\*   "badjson"   the body does not parse
\*   "nochoices" the body has no choices array
\*   "nomessage" choices is empty or choices[0] has no message
\*   "ok"        choices[0].message holds content and tool_calls
FailureKinds == {"network", "status", "badjson", "nochoices", "nomessage"}
ThrowingKinds == {"nokey", "network", "status", "badjson", "nochoices"}

Failure(kind) == [kind |-> kind, content |-> "", tool_calls |-> <<>>]
OkReply(content, calls) == [kind |-> "ok", content |-> content, tool_calls |-> calls]

\* A raw tool call of the reply: {id, function: {name, arguments}}.
RawCalls(names, argTexts) == [id : CallIds, name : names, arguments : argTexts]

\* The ids of one reply are all different: the first ones of CallIdSeq, in
\* any order.
DistinctIds(calls) ==
  /\ \A i, j \in 1..Len(calls) : i # j => calls[i].id # calls[j].id
  /\ \A i \in 1..Len(calls) : \E k \in 1..Len(calls) : calls[i].id = CallIdSeq[k]

CallLists(rawCalls) ==
  UNION {{calls \in [1..n -> {c \in rawCalls : \E k \in 1..n : c.id = CallIdSeq[k]}] :
            DistinctIds(calls)} : n \in 0..MaxCalls}

ReplyTexts == {"", "text"}

RepliesWith(callLists) ==
  {OkReply(c, calls) : c \in ReplyTexts, calls \in callLists}

OkReplies(names, argTexts) == RepliesWith(CallLists(RawCalls(names, argTexts)))

\* The replies that ask for no tool.
PlainReplies == RepliesWith({<<>>})

\* assistantMessage?.tool_calls?.map(...)
ParsedCalls(calls) ==
  [k \in 1..Len(calls) |->
     [id |-> calls[k].id, name |-> calls[k].name,
      arguments |-> safeParseJson(calls[k].arguments)]]

\* getChatResponse without the fallback text for a reply that has no content.
MutGetChatResponse(reply) ==
  IF reply.kind \in ThrowingKinds
  THEN [content |-> SorryMessage, toolCalls |-> <<>>]
  ELSE [content |-> reply.content, toolCalls |-> ParsedCalls(reply.tool_calls)]

\* The value getChatResponse resolves to for a given outcome of the call.
\* toolCalls is <<>> when the property is undefined or the list is empty.
getChatResponse(reply) ==
  IF reply.kind \in ThrowingKinds
  THEN [content |-> SorryMessage, toolCalls |-> <<>>]
  ELSE IF reply.kind = "nomessage"
       THEN [content |-> TroubleMessage, toolCalls |-> <<>>]
       ELSE [content |-> IF reply.content = "" THEN TroubleMessage ELSE reply.content,
             toolCalls |-> ParsedCalls(reply.tool_calls)]

\* --------------------------------------------------------- handleToolCalls
\* The names getToolDefinitions offers, and a name it does not.
ToolNames == {"get_emails", "send_email", "get_calendar_events",
              "create_calendar_event", "update_calendar_event",
              "delete_calendar_event"}
UnknownName == "foo_bar"

\* How a call to a Google endpoint ends:
\*   "ok"    a 2xx response with the documented body
\*   "http"  a non-2xx response (for example 500) with a JSON error body
\*   "net"   fetch rejects, or the body is not JSON where it is parsed
ExtOutcomes == {"ok", "http", "net"}

\* JSON.stringify({ success: true, message: 'Event deleted successfully' })
DeletedResult == "{\"success\":true,\"message\":\"Event deleted successfully\"}"

\* The contents of tool turns: JSON.stringify(result.result || result.error).
ErrorTexts == {"fetch failed", "TypeError"}
SuccessValues == {"emails", "events", "[]", "receipt", "event", "googleErrorBody",
                  DeletedResult}

Done(ext, value) == [ext |-> ext, failed |-> FALSE, value |-> value]
Thrown(ext, message) == [ext |-> ext, failed |-> TRUE, value |-> message]

\* response.json() of an endpoint that answers with the resource.
JsonCall(op, o, value) ==
  IF o = "net" THEN Thrown(<<op>>, "fetch failed")
  ELSE IF o = "http" THEN Done(<<op>>, "googleErrorBody")
       ELSE Done(<<op>>, value)

\* GoogleCalendarService.getEvents, GmailService.getEmails: data.items || []
ListCall(op, o, value) ==
  IF o = "net" THEN Thrown(<<op>>, "fetch failed")
  ELSE IF o = "http" THEN Done(<<op>>, "[]")
       ELSE Done(<<op>>, value)

\* case 'get_emails': the list, then one getEmail per message listed.
GetEmails(o1, o2) ==
  LET list == ListCall("gmail.getEmails", o1, "ids") IN
  IF list.failed \/ list.value = "[]" THEN list
  ELSE IF o2 = "net" THEN Thrown(<<"gmail.getEmails", "gmail.getEmail">>, "fetch failed")
       ELSE IF o2 = "http"
            THEN Thrown(<<"gmail.getEmails", "gmail.getEmail">>, "TypeError")
            ELSE Done(<<"gmail.getEmails", "gmail.getEmail">>, "emails")

\* case 'send_email'
SendEmail(args, o1) == JsonCall("gmail.sendEmail", o1, "receipt")

\* GoogleCalendarService.deleteEvent does not look at the response.
\* deleteEvent awaits the fetch and does not look at the response.
DeleteEvent(o1) ==
  IF o1 = "net" THEN Thrown(<<"calendar.deleteEvent">>, "fetch failed")
  ELSE Done(<<"calendar.deleteEvent">>, DeletedResult)

\* JSON.stringify({ error: `Unknown tool call: ${name}` })
UnknownToolResult(name) == "{\"error\":\"Unknown tool call: " \o name \o "\"}"

\* The default case leaves the result empty.
MutUnknownTool(name) == Done(<<>>, "{}")

\* default: result = { error: `Unknown tool call: ${name}` }
UnknownTool(name) == Done(<<>>, UnknownToolResult(name))

\* One iteration of the loop of handleToolCalls: the external calls made
\* (ext), and what is pushed to results.
ExecTool(toolCall, o1, o2) ==
  LET name == toolCall.name
      args == toolCall.arguments
  IN IF name \notin ToolNames THEN UnknownTool(name)
     ELSE IF args.null THEN Thrown(<<>>, "TypeError")
     ELSE IF name = "get_emails" THEN GetEmails(o1, o2)
     ELSE IF name = "send_email" THEN SendEmail(args, o1)
     ELSE IF name = "get_calendar_events"
          THEN ListCall("calendar.getEvents", o1, "events")
     ELSE IF name = "create_calendar_event"
          THEN JsonCall("calendar.createEvent", o1, "event")
     ELSE IF name = "update_calendar_event"
          THEN JsonCall("calendar.updateEvent", o1, "event")
     ELSE DeleteEvent(o1)

\* results.push({toolCallId, name, result}) or {toolCallId, name, error}
ToolResult(toolCall, o1, o2) ==
  LET x == ExecTool(toolCall, o1, o2) IN
  [toolCallId |-> toolCall.id, name |-> toolCall.name,
   failed |-> x.failed, value |-> x.value]

\* A request whose execution failed is sent to the collaborator again.
MutExtCalls(toolCall, o1, o2) ==
  LET x == ExecTool(toolCall, o1, o2)
      once == [k \in 1..Len(x.ext) |->
                 [op |-> x.ext[k], id |-> toolCall.id, outcome |-> IF k = 1 THEN o1 ELSE o2]]
  IN IF x.failed THEN once \o once ELSE once

\* The requests sent to Gmail and Calendar while toolCall is executed, with
\* how each ended.
ExtCalls(toolCall, o1, o2) ==
  LET ext == ExecTool(toolCall, o1, o2).ext
  IN [k \in 1..Len(ext) |->
        [op |-> ext[k], id |-> toolCall.id, outcome |-> IF k = 1 THEN o1 ELSE o2]]

\* The tool turn the chat handler pushes for a result.
ToolMessage(result) == ToolTurn(result.value, result.toolCallId)

\* Only the results that did not fail get a tool turn.
MutToolMessages(results) ==
  LET ok == SelectSeq(results, LAMBDA x : ~x.failed)
  IN [k \in 1..Len(ok) |-> ToolMessage(ok[k])]

\* toolResults.forEach(result => messages.push({role: 'tool', ...}))
ToolMessages(results) == [k \in 1..Len(results) |-> ToolMessage(results[k])]

\* messages.slice(-10)
Truncate(messages) ==
  IF Len(messages) <= MaxHistory THEN messages
  ELSE SubSeq(messages, Len(messages) - MaxHistory + 1, Len(messages))

\* ------------------------------------------------------------------ state
VARIABLES
  apiKey,           \* process.env.MISTRAL_API_KEY is set
  sessionUser,      \* session.user in the session store
  sessionMessages,  \* session.messages in the session store
  sent,             \* user messages sent so far
  pc,               \* where each request's handler is suspended
  reqUser,          \* req.session.user of the request
  messages,         \* the messages array of the request
  msgNo,            \* which user message the request carries
  replies,          \* what the calls of getChatResponse came back with
  toolCalls,        \* toolCalls of the first reply
  toolResults,      \* results of handleToolCalls, so far
  llmLog,           \* the calls of getChatResponse made by the request
  extLog,           \* the calls to Gmail and Calendar made by the request
  response,         \* what res sent
  registry,         \* the catalogue of ToolService, and the searches made in it
  account,          \* the user's row with its Google tokens, and the calls made with them
  page              \* the embedded chat page in the browser

\* The variables of the chat handlers.
chatVars == <<apiKey, sessionUser, sessionMessages, sent, pc, reqUser, messages,
              msgNo, replies, toolCalls, toolResults, llmLog, extLog, response>>

vars == <<apiKey, sessionUser, sessionMessages, sent, pc, reqUser, messages,
          msgNo, replies, toolCalls, toolResults, llmLog, extLog, response,
          registry, account, page>>

NoResponse == [status |-> 0, body |-> UserTurn("")]

IntegrationFunction(name, description, category) ==
  [name |-> name, description |-> description, category |-> category]

\* private functions: IntegrationFunction[]
functions ==
  << IntegrationFunction("getEmails", "Get emails from Gmail inbox", "gmail"),
     IntegrationFunction("sendEmail", "Send an email via Gmail", "gmail"),
     IntegrationFunction("searchEmails", "Search emails in Gmail", "gmail"),
     IntegrationFunction("getCalendarEvents", "Get calendar events", "calendar"),
     IntegrationFunction("getTodayEvents", "Get today's calendar events", "calendar"),
     IntegrationFunction("createCalendarEvent", "Create a new calendar event", "calendar"),
     IntegrationFunction("updateCalendarEvent", "Update an existing calendar event", "calendar"),
     IntegrationFunction("deleteCalendarEvent", "Delete a calendar event", "calendar") >>

\* The tool service before any search.
NoSearch == [functions |-> functions, query |-> "", results |-> <<>>]

\* The user's row as the OAuth callback wrote it: the access token Google
\* issued (number 0), its expiry still ahead, and a refresh token.  No
\* service method has been called.
User(accessToken, expired, refreshToken) ==
  [accessToken |-> accessToken, expired |-> expired, refreshToken |-> refreshToken]
NoAccount == [user |-> User(0, FALSE, TRUE), issued |-> 0, exchange |-> 0, calls |-> <<>>]

\* let isLoading = false; the input is empty and nothing is shown.
NoPage ==
  [isLoading |-> FALSE, input |-> "", outstanding |-> 0, clicks |-> 0, ignored |-> 0,
   shown |-> <<>>]

\* No request has arrived.
ChatIdle ==
  /\ sessionUser = NoUser
  /\ sessionMessages = <<>>
  /\ sent = 0
  /\ pc = [r \in Reqs |-> "idle"]
  /\ reqUser = [r \in Reqs |-> NoUser]
  /\ messages = [r \in Reqs |-> <<>>]
  /\ msgNo = [r \in Reqs |-> 0]
  /\ replies = [r \in Reqs |-> <<>>]
  /\ toolCalls = [r \in Reqs |-> <<>>]
  /\ toolResults = [r \in Reqs |-> <<>>]
  /\ llmLog = [r \in Reqs |-> <<>>]
  /\ extLog = [r \in Reqs |-> <<>>]
  /\ response = [r \in Reqs |-> NoResponse]

Init ==
  /\ apiKey \in BOOLEAN
  /\ sessionUser = NoUser
  /\ sessionMessages = <<>>
  /\ sent = 0
  /\ pc = [r \in Reqs |-> "idle"]
  /\ reqUser = [r \in Reqs |-> NoUser]
  /\ messages = [r \in Reqs |-> <<>>]
  /\ msgNo = [r \in Reqs |-> 0]
  /\ replies = [r \in Reqs |-> <<>>]
  /\ toolCalls = [r \in Reqs |-> <<>>]
  /\ toolResults = [r \in Reqs |-> <<>>]
  /\ llmLog = [r \in Reqs |-> <<>>]
  /\ extLog = [r \in Reqs |-> <<>>]
  /\ response = [r \in Reqs |-> NoResponse]
  /\ registry = NoSearch
  /\ account = NoAccount
  /\ page = NoPage

\* The outcomes a call of getChatResponse can have in this process.  The
\* provider's reply carries tool calls only when the request offered tools.
Outcomes(okReplies, tools) ==
  IF apiKey
  THEN {Failure(k) : k \in FailureKinds} \cup
       (IF tools THEN okReplies ELSE PlainReplies)
  ELSE {Failure("nokey")}

\* Whether the last call of getChatResponse of request r offered tools.
Offered(r) == llmLog[r][Len(llmLog[r])].tools

\* /api/auth/callback: the session gets its user.  tokens.access_token is
\* undefined when the code exchange is refused.
Login(token) ==
  /\ ~sessionUser.present
  /\ \A r \in Reqs : pc[r] \in {"idle", "done"}
  /\ sessionUser' = [present |-> TRUE, accessToken |-> token]
  /\ UNCHANGED <<account, page, registry, apiKey, sessionMessages, sent, pc, reqUser, messages, msgNo,
                 replies, toolCalls, toolResults, llmLog, extLog, response>>

\* /api/auth/logout: req.session.destroy() removes the session, its user
\* and its messages, from the store.
Logout ==
  /\ \A r \in Reqs : pc[r] \in {"idle", "done"}
  /\ sessionUser.present
  /\ sessionUser' = NoUser
  /\ sessionMessages' = <<>>
  /\ UNCHANGED <<account, page, registry, apiKey, sent, pc, reqUser, messages, msgNo,
                 replies, toolCalls, toolResults, llmLog, extLog, response>>

\* express-session loads the session for a new POST /api/chat.
Receive(r, limit) ==
  /\ pc[r] \in {"idle", "done"}
  /\ sent < limit
  /\ sent' = sent + 1
  /\ msgNo' = [msgNo EXCEPT ![r] = sent + 1]
  /\ reqUser' = [reqUser EXCEPT ![r] = sessionUser]
  /\ messages' = [messages EXCEPT ![r] = sessionMessages]
  /\ replies' = [replies EXCEPT ![r] = <<>>]
  /\ toolCalls' = [toolCalls EXCEPT ![r] = <<>>]
  /\ toolResults' = [toolResults EXCEPT ![r] = <<>>]
  /\ llmLog' = [llmLog EXCEPT ![r] = <<>>]
  /\ extLog' = [extLog EXCEPT ![r] = <<>>]
  /\ response' = [response EXCEPT ![r] = NoResponse]
  /\ pc' = [pc EXCEPT ![r] = "loaded"]
  /\ UNCHANGED <<account, page, registry, apiKey, sessionUser, sessionMessages>>

\* The tool definitions are sent for every user.
MutFirstCallTools(user) == TRUE

\* const tools = req.session.user?.accessToken ? getToolDefinitions() : undefined
FirstCallTools(user) == user.accessToken

\* Every request is taken for an authenticated one.
MutAuthenticated(user) == TRUE

\* if (!req.session.user) return res.status(401)...
Authenticated(user) == user.present

\* The handler up to its first await: 401, or the user turn and the first
\* call of getChatResponse.
ChatStart(r) ==
  /\ pc[r] = "loaded"
  /\ IF ~Authenticated(reqUser[r])
     THEN /\ response' = [response EXCEPT ![r] =
                            [status |-> 401, body |-> UserTurn("Not authenticated")]]
          /\ pc' = [pc EXCEPT ![r] = "done"]
          /\ UNCHANGED <<messages, llmLog>>
     ELSE LET pushed == Append(messages[r], UserTurn(UserTexts[msgNo[r]])) IN
          /\ messages' = [messages EXCEPT ![r] = pushed]
          /\ llmLog' = [llmLog EXCEPT ![r] =
                          <<RequestBody(pushed, FirstCallTools(reqUser[r]))>>]
          /\ pc' = [pc EXCEPT ![r] = "await1"]
          /\ UNCHANGED response
  /\ UNCHANGED <<account, page, registry, apiKey, sessionUser, sessionMessages, sent, reqUser, msgNo,
                 replies, toolCalls, toolResults, extLog>>

\* req.session.messages = messages.slice(-10); res.json(last message); the
\* session is saved when the response ends.
Finish(r, final) ==
  /\ messages' = [messages EXCEPT ![r] = final]
  /\ sessionMessages' = Truncate(final)
  /\ response' = [response EXCEPT ![r] = [status |-> 200, body |-> final[Len(final)]]]
  /\ pc' = [pc EXCEPT ![r] = "done"]

\* The handler takes every reply for one without tool calls.
MutHasToolCalls(calls) == FALSE

\* if (toolCalls?.length)
HasToolCalls(calls) == Len(calls) > 0

\* The first reply arrives: either the assistant turn with tool_calls is
\* pushed and handleToolCalls starts, or the reply is the final turn.
FirstReply(r, reply) ==
  /\ pc[r] = "await1"
  /\ replies' = [replies EXCEPT ![r] = <<reply>>]
  /\ LET res == getChatResponse(reply) IN
     IF HasToolCalls(res.toolCalls)
     THEN /\ messages' = [messages EXCEPT ![r] =
                Append(@, AssistantTurn(res.content, formatToolCalls(res.toolCalls)))]
          /\ toolCalls' = [toolCalls EXCEPT ![r] = res.toolCalls]
          /\ pc' = [pc EXCEPT ![r] = "tools"]
          /\ UNCHANGED <<sessionMessages, response>>
     ELSE /\ Finish(r, Append(messages[r], AssistantTurn(res.content, <<>>)))
          /\ UNCHANGED toolCalls
  /\ UNCHANGED <<account, page, registry, apiKey, sessionUser, sent, reqUser, msgNo, toolResults, llmLog, extLog>>

\* const finalResponse = await mistralService.getChatResponse(messages)
SecondCallTools(user) == FALSE

\* One iteration of handleToolCalls.  After the last one the tool turns are
\* pushed and getChatResponse is called again.
ToolStep(r, o1, o2) ==
  /\ pc[r] = "tools"
  /\ Len(toolResults[r]) < Len(toolCalls[r])
  /\ LET call == toolCalls[r][Len(toolResults[r]) + 1]
         results == Append(toolResults[r], ToolResult(call, o1, o2))
         pushed == messages[r] \o ToolMessages(results)
     IN /\ toolResults' = [toolResults EXCEPT ![r] = results]
        /\ extLog' = [extLog EXCEPT ![r] = @ \o ExtCalls(call, o1, o2)]
        /\ IF Len(results) = Len(toolCalls[r])
           THEN /\ messages' = [messages EXCEPT ![r] = pushed]
                /\ llmLog' = [llmLog EXCEPT ![r] =
                       Append(@, RequestBody(pushed, SecondCallTools(reqUser[r])))]
                /\ pc' = [pc EXCEPT ![r] = "await2"]
           ELSE UNCHANGED <<messages, llmLog, pc>>
  /\ UNCHANGED <<account, page, registry, apiKey, sessionUser, sessionMessages, sent, reqUser, msgNo,
                 replies, toolCalls, response>>

\* The second reply arrives: its content is the final assistant turn.
FinalReply(r, reply) ==
  /\ pc[r] = "await2"
  /\ replies' = [replies EXCEPT ![r] = Append(@, reply)]
  /\ Finish(r, Append(messages[r], AssistantTurn(getChatResponse(reply).content, <<>>)))
  /\ UNCHANGED <<account, page, registry, apiKey, sessionUser, sent, reqUser, msgNo, toolCalls,
                 toolResults, llmLog, extLog>>

\* ---------------------------------------------------------- specifications
\* Spec: one page, which sends its next message when the reply to the last
\* one has arrived (sendMessage returns while isLoading).  The LLM asks for
\* a calendar listing or for a tool that does not exist.
ChatNames == {"get_calendar_events", UnknownName}
ChatArgs == {EmptyString}
ChatReplies(r) == Outcomes(OkReplies(ChatNames, ChatArgs), Offered(r))

LoginStep == \E token \in BOOLEAN : Login(token)
ReceiveStep == Receive("tab1", MaxExchanges)
ChatStartStep == ChatStart("tab1")
FirstReplyStep ==
  pc["tab1"] = "await1" /\ \E reply \in ChatReplies("tab1") : FirstReply("tab1", reply)
ToolStepStep == \E o1 \in ExtOutcomes : ToolStep("tab1", o1, "ok")
FinalReplyStep ==
  pc["tab1"] = "await2" /\ \E reply \in ChatReplies("tab1") : FinalReply("tab1", reply)

Next ==
  \/ LoginStep
  \/ ReceiveStep
  \/ ChatStartStep
  \/ FirstReplyStep
  \/ ToolStepStep
  \/ FinalReplyStep

Spec == Init /\ [][Next]_vars

\* SpecHistory: one page and enough exchanges for the stored history to
\* outgrow MaxHistory.  The LLM asks for a tool that does not exist, so no
\* collaborator is called.
HistoryNames == {UnknownName}
HistoryReplies(r) == Outcomes(OkReplies(HistoryNames, ChatArgs), Offered(r))

HistoryLoginStep == \E token \in BOOLEAN : Login(token)
HistoryReceiveStep == Receive("tab1", HistoryExchanges)
HistoryChatStartStep == ChatStart("tab1")
HistoryFirstReplyStep ==
  pc["tab1"] = "await1" /\ \E reply \in HistoryReplies("tab1") : FirstReply("tab1", reply)
HistoryToolStepStep == ToolStep("tab1", "ok", "ok")
HistoryFinalReplyStep ==
  pc["tab1"] = "await2" /\ \E reply \in HistoryReplies("tab1") : FinalReply("tab1", reply)

NextHistory ==
  \/ HistoryLoginStep
  \/ HistoryReceiveStep
  \/ HistoryChatStartStep
  \/ HistoryFirstReplyStep
  \/ HistoryToolStepStep
  \/ HistoryFinalReplyStep

SpecHistory == Init /\ [][NextHistory]_vars

\* SpecTabs: two pages open on one session cookie.  Each request gets the
\* session as the store held it when the request arrived, and the store keeps
\* what the request that ended last saved.
TabsReplies(r) == Outcomes(OkReplies(HistoryNames, ChatArgs), Offered(r))

TabsLoginStep == \E token \in BOOLEAN : Login(token)
TabsReceiveStep == \E r \in Reqs : Receive(r, MaxExchanges)
TabsChatStartStep == \E r \in Reqs : ChatStart(r)
TabsFirstReplyStep ==
  \E r \in Reqs : pc[r] = "await1" /\ \E reply \in TabsReplies(r) : FirstReply(r, reply)
TabsToolStepStep == \E r \in Reqs : ToolStep(r, "ok", "ok")
TabsFinalReplyStep ==
  \E r \in Reqs : pc[r] = "await2" /\ \E reply \in TabsReplies(r) : FinalReply(r, reply)

NextTabs ==
  \/ TabsLoginStep
  \/ TabsReceiveStep
  \/ TabsChatStartStep
  \/ TabsFirstReplyStep
  \/ TabsToolStepStep
  \/ TabsFinalReplyStep

SpecTabs == Init /\ [][NextTabs]_vars

\* SpecSession: the user signs in and out between the requests of two
\* pages, which are made one after the other.
SessionLoginStep == \E token \in BOOLEAN : Login(token)
SessionLogoutStep == Logout
SessionReceiveStep ==
  /\ \A r \in Reqs : pc[r] \in {"idle", "done"}
  /\ \E r \in Reqs : Receive(r, MaxExchanges)
SessionChatStartStep == \E r \in Reqs : ChatStart(r)
SessionFirstReplyStep ==
  \E r \in Reqs : pc[r] = "await1" /\ \E reply \in TabsReplies(r) : FirstReply(r, reply)
SessionToolStepStep == \E r \in Reqs : ToolStep(r, "ok", "ok")
SessionFinalReplyStep ==
  \E r \in Reqs : pc[r] = "await2" /\ \E reply \in TabsReplies(r) : FinalReply(r, reply)

NextSession ==
  \/ SessionLoginStep
  \/ SessionLogoutStep
  \/ SessionReceiveStep
  \/ SessionChatStartStep
  \/ SessionFirstReplyStep
  \/ SessionToolStepStep
  \/ SessionFinalReplyStep

SpecSession == Init /\ [][NextSession]_vars

\* getToolDefinitions: parameters.required of each tool.
Required(name) ==
  CASE name = "send_email" -> {"to", "subject", "body"}
    [] name = "create_calendar_event" -> {"summary", "start", "end"}
    [] name = "update_calendar_event" -> {"event_id"}
    [] name = "delete_calendar_event" -> {"event_id"}
    [] OTHER -> {}

\* SpecTools: one exchange in which the LLM can ask for every tool of the
\* catalogue and for one outside it.  send_email comes with every choice of
\* to, subject and body, with null and with text JSON.parse rejects.
SendArgs ==
  {JsonText(ObjArgs(keys)) : keys \in SUBSET ArgKeys} \cup
  {JsonText(NullArgs), Malformed, EmptyString}
PlainArgs == {EmptyString, JsonText(NullArgs)}
\* delete_calendar_event also comes with its event_id.
EventArgs == {JsonText(ObjArgs({"event_id"}))}
ToolsRawCalls ==
  {call \in RawCalls(ToolNames \cup {UnknownName}, SendArgs \cup EventArgs) :
     /\ call.name = "send_email" => call.arguments \in SendArgs
     /\ call.name = "delete_calendar_event" => call.arguments \in PlainArgs \cup EventArgs
     /\ call.name \notin {"send_email", "delete_calendar_event"} => call.arguments \in PlainArgs}
ToolsReplies(r) == Outcomes(RepliesWith(CallLists(ToolsRawCalls)), Offered(r))

ToolsLoginStep == \E token \in BOOLEAN : Login(token)
ToolsReceiveStep == Receive("tab1", ToolsExchanges)
ToolsChatStartStep == ChatStart("tab1")
ToolsFirstReplyStep ==
  pc["tab1"] = "await1" /\ \E reply \in ToolsReplies("tab1") : FirstReply("tab1", reply)
ToolsToolStepStep == \E o1, o2 \in ExtOutcomes : ToolStep("tab1", o1, o2)
ToolsFinalReplyStep ==
  pc["tab1"] = "await2" /\ \E reply \in ToolsReplies("tab1") : FinalReply("tab1", reply)

NextTools ==
  \/ ToolsLoginStep
  \/ ToolsReceiveStep
  \/ ToolsChatStartStep
  \/ ToolsFirstReplyStep
  \/ ToolsToolStepStep
  \/ ToolsFinalReplyStep

SpecTools == Init /\ [][NextTools]_vars

\* ------------------------------------------ handleToolCalls, call by call
\* SpecSteps: the exchange of Spec with each request of handleToolCalls in
\* two steps, the fetch sent to the collaborator and its answer.  A fetch
\* that has not been answered is in extLog with the outcome "pending".
Pending(r) == {j \in 1..Len(extLog[r]) : extLog[r][j].outcome = "pending"}

\* The collaborator operation the request calls first, "none" when the
\* request ends without a fetch.
FirstOp(toolCall) ==
  LET ext == ExecTool(toolCall, "ok", "ok").ext
  IN IF ext = <<>> THEN "none" ELSE ext[1]

\* Every request that has no result yet is taken up at once.
MutCanStart(r, k) ==
  /\ k > Len(toolResults[r])
  /\ \A j \in 1..Len(extLog[r]) : extLog[r][j].id # toolCalls[r][k].id

\* The loop never takes up a request.
MutNeverStart(r, k) == FALSE

\* for (const toolCall of toolCalls) { ... await ... }: the request at
\* position k is taken up when the requests before it have their results.
CanStart(r, k) == k = Len(toolResults[r]) + 1 /\ Pending(r) = {}

\* The fetch of the next request is sent.
ToolStart(r) ==
  /\ pc[r] = "tools"
  /\ \E k \in 1..Len(toolCalls[r]) :
       /\ CanStart(r, k)
       /\ FirstOp(toolCalls[r][k]) # "none"
       /\ extLog' = [extLog EXCEPT ![r] =
             Append(@, [op |-> FirstOp(toolCalls[r][k]), id |-> toolCalls[r][k].id,
                        outcome |-> "pending"])]
  /\ UNCHANGED <<account, page, registry, apiKey, sessionUser, sessionMessages, sent, pc, reqUser, messages,
                 msgNo, replies, toolCalls, toolResults, llmLog, response>>

\* The log once the fetch of toolCall has been answered: the pending entry
\* gets its outcome, and a second fetch of the same request follows it.
Answered(log, toolCall, o1, o2) ==
  LET ext == ExtCalls(toolCall, o1, o2)
  IN [j \in 1..Len(log) |->
        IF log[j].id = toolCall.id /\ log[j].outcome = "pending" THEN ext[1] ELSE log[j]]
     \o (IF Len(ext) > 1 THEN Tail(ext) ELSE <<>>)

\* The request in turn gets its result: its fetch is answered, or it needed
\* none.  After the last result the tool turns are pushed and
\* getChatResponse is called again.
ToolEnd(r, o1, o2) ==
  /\ pc[r] = "tools"
  /\ Len(toolResults[r]) < Len(toolCalls[r])
  /\ LET call == toolCalls[r][Len(toolResults[r]) + 1]
         results == Append(toolResults[r], ToolResult(call, o1, o2))
         pushed == messages[r] \o ToolMessages(results)
     IN /\ FirstOp(call) # "none" =>
             \E j \in Pending(r) : extLog[r][j].id = call.id
        /\ toolResults' = [toolResults EXCEPT ![r] = results]
        /\ extLog' = [extLog EXCEPT ![r] = Answered(@, call, o1, o2)]
        /\ IF Len(results) = Len(toolCalls[r])
           THEN /\ messages' = [messages EXCEPT ![r] = pushed]
                /\ llmLog' = [llmLog EXCEPT ![r] =
                       Append(@, RequestBody(pushed, SecondCallTools(reqUser[r])))]
                /\ pc' = [pc EXCEPT ![r] = "await2"]
           ELSE UNCHANGED <<messages, llmLog, pc>>
  /\ UNCHANGED <<account, page, registry, apiKey, sessionUser, sessionMessages, sent, reqUser, msgNo,
                 replies, toolCalls, response>>

StepsLoginStep == \E token \in BOOLEAN : Login(token)
StepsReceiveStep == Receive("tab1", MaxExchanges)
StepsChatStartStep == ChatStart("tab1")
StepsFirstReplyStep ==
  pc["tab1"] = "await1" /\ \E reply \in ChatReplies("tab1") : FirstReply("tab1", reply)
StepsToolStartStep == ToolStart("tab1")
StepsToolEndStep == \E o1 \in ExtOutcomes : ToolEnd("tab1", o1, "ok")
StepsFinalReplyStep ==
  pc["tab1"] = "await2" /\ \E reply \in ChatReplies("tab1") : FinalReply("tab1", reply)

NextSteps ==
  \/ StepsLoginStep
  \/ StepsReceiveStep
  \/ StepsChatStartStep
  \/ StepsFirstReplyStep
  \/ StepsToolStartStep
  \/ StepsToolEndStep
  \/ StepsFinalReplyStep

SpecSteps == Init /\ [][NextSteps]_vars

\* SpecStepsFair: the handler takes its next step, and every call of the LLM
\* and every fetch is answered in the end.
SpecStepsFair ==
  /\ SpecSteps
  /\ WF_vars(StepsChatStartStep)
  /\ WF_vars(StepsFirstReplyStep)
  /\ WF_vars(StepsToolStartStep)
  /\ WF_vars(StepsToolEndStep)
  /\ WF_vars(StepsFinalReplyStep)

\* ------------------------------------------- the earlier server (part_002)
KeyMessage == "MISTRAL_API_KEY not configured. Please set up your API key to enable full functionality."

\* A tool call whose function has no name.
NoName == ""

\* messages.map(msg => ({role, content, name?, tool_calls?})), with the
\* system message put first: tool_call_id is not copied.
PreparedMessages(list) ==
  <<SystemTurn>> \o
  [k \in 1..Len(list) |-> [list[k] EXCEPT !.tool_call_id = NoId]]

\* if (user?.accessToken) requestBody.tools = this.getToolDefinitions()
LegacyTools(user) == user.accessToken

LegacyRequestBody(list, user) ==
  [messages |-> PreparedMessages(list), tools |-> LegacyTools(user)]

\* getChatResponse of the earlier server.
LegacyGetChatResponse(reply) ==
  IF reply.kind = "nokey" THEN [content |-> KeyMessage, toolCalls |-> <<>>]
  ELSE IF reply.kind # "ok" THEN [content |-> SorryMessage, toolCalls |-> <<>>]
  ELSE [content |-> reply.content,
        toolCalls |-> SelectSeq(ParsedCalls(reply.tool_calls),
                                LAMBDA call : call.name # NoName)]

\* The first reply with a single tool call is taken for a plain reply.
MutLegacyHasToolCalls(calls) == Len(calls) > 1

\* if (toolCalls?.length)
LegacyHasToolCalls(calls) == Len(calls) > 0

LegacyChatStart(r) ==
  /\ pc[r] = "loaded"
  /\ IF ~reqUser[r].present
     THEN /\ response' = [response EXCEPT ![r] =
                            [status |-> 401, body |-> UserTurn("Not authenticated")]]
          /\ pc' = [pc EXCEPT ![r] = "done"]
          /\ UNCHANGED <<messages, llmLog>>
     ELSE LET pushed == Append(messages[r], UserTurn(UserTexts[msgNo[r]])) IN
          /\ messages' = [messages EXCEPT ![r] = pushed]
          /\ llmLog' = [llmLog EXCEPT ![r] = <<LegacyRequestBody(pushed, reqUser[r])>>]
          /\ pc' = [pc EXCEPT ![r] = "await1"]
          /\ UNCHANGED response
  /\ UNCHANGED <<account, page, registry, apiKey, sessionUser, sessionMessages, sent, reqUser, msgNo,
                 replies, toolCalls, toolResults, extLog>>

\* The first reply arrives: handleToolCalls starts, or the reply is final.
LegacyFirstReply(r, reply) ==
  /\ pc[r] = "await1"
  /\ replies' = [replies EXCEPT ![r] = <<reply>>]
  /\ LET res == LegacyGetChatResponse(reply) IN
     IF LegacyHasToolCalls(res.toolCalls)
     THEN /\ toolCalls' = [toolCalls EXCEPT ![r] = res.toolCalls]
          /\ pc' = [pc EXCEPT ![r] = "tools"]
          /\ UNCHANGED <<messages, sessionMessages, response>>
     ELSE /\ Finish(r, Append(messages[r], AssistantTurn(res.content, <<>>)))
          /\ UNCHANGED toolCalls
  /\ UNCHANGED <<account, page, registry, apiKey, sessionUser, sent, reqUser, msgNo, toolResults, llmLog, extLog>>

\* const finalMessages = [...messages, {assistant, tool_calls}, ...toolResponseMessages]
FinalMessages(list, calls, results) ==
  list \o <<AssistantTurn("", formatToolCalls(calls))>> \o ToolMessages(results)

\* One iteration of handleToolCalls.  After the last one finalMessages is
\* built and getChatResponse is called with it and the user.
LegacyToolStep(r, o1, o2) ==
  /\ pc[r] = "tools"
  /\ Len(toolResults[r]) < Len(toolCalls[r])
  /\ LET call == toolCalls[r][Len(toolResults[r]) + 1]
         results == Append(toolResults[r], ToolResult(call, o1, o2))
     IN /\ toolResults' = [toolResults EXCEPT ![r] = results]
        /\ extLog' = [extLog EXCEPT ![r] = @ \o ExtCalls(call, o1, o2)]
        /\ IF Len(results) = Len(toolCalls[r])
           THEN /\ llmLog' = [llmLog EXCEPT ![r] = Append(@,
                       LegacyRequestBody(FinalMessages(messages[r], toolCalls[r], results),
                                         reqUser[r]))]
                /\ pc' = [pc EXCEPT ![r] = "await2"]
           ELSE UNCHANGED <<llmLog, pc>>
  /\ UNCHANGED <<account, page, registry, apiKey, sessionUser, sessionMessages, sent, reqUser, messages, msgNo,
                 replies, toolCalls, response>>

\* messages.push({role: 'assistant', content: finalResponse.content})
LegacyFinalReply(r, reply) ==
  /\ pc[r] = "await2"
  /\ replies' = [replies EXCEPT ![r] = Append(@, reply)]
  /\ Finish(r, Append(messages[r],
                      AssistantTurn(LegacyGetChatResponse(reply).content, <<>>)))
  /\ UNCHANGED <<account, page, registry, apiKey, sessionUser, sent, reqUser, msgNo, toolCalls,
                 toolResults, llmLog, extLog>>

\* SpecLegacy: one page on the earlier server.
LegacyLoginStep == \E token \in BOOLEAN : Login(token)
LegacyReceiveStep == Receive("tab1", MaxExchanges)
LegacyChatStartStep == LegacyChatStart("tab1")
LegacyFirstReplyStep ==
  pc["tab1"] = "await1" /\ \E reply \in ChatReplies("tab1") : LegacyFirstReply("tab1", reply)
LegacyToolStepStep == \E o1 \in ExtOutcomes : LegacyToolStep("tab1", o1, "ok")
LegacyFinalReplyStep ==
  pc["tab1"] = "await2" /\ \E reply \in ChatReplies("tab1") : LegacyFinalReply("tab1", reply)

NextLegacy ==
  \/ LegacyLoginStep
  \/ LegacyReceiveStep
  \/ LegacyChatStartStep
  \/ LegacyFirstReplyStep
  \/ LegacyToolStepStep
  \/ LegacyFinalReplyStep

SpecLegacy == Init /\ [][NextLegacy]_vars

\* --------------------------------------------- the database-backed server
\* routes.ts (part_002, lines 1-186), services/mistral.ts, services/tools.ts
\* (part_001), services/gmail.ts and services/calendar.ts.  The conversation
\* is a list of rows in storage: sessionMessages holds it, sessionUser holds
\* session.userId and the user's row.

\* A property the object does not have.
Absent == "undefined"

\* const { content, toolCalls } of the rows and of the response.
DbArgs(query, name, parameters) ==
  [null |-> FALSE, query |-> query, name |-> name, parameters |-> parameters]
DbNull == [null |-> TRUE, query |-> Absent, name |-> Absent, parameters |-> NullArgs]
DbMalformed == [text |-> "malformed", value |-> DbNull]
DbEmptyString == [text |-> "empty", value |-> DbNull]
\* The object {}.
DbEmptyObject == DbArgs(Absent, Absent, NullArgs)

Uppers == "ABCDEFGHIJKLMNOPQRSTUVWXYZ"
Lowers == "abcdefghijklmnopqrstuvwxyz"
CharAt(str, i) == SubSeq(str, i, i)
UpperChars == {CharAt(Uppers, i) : i \in 1..Len(Uppers)}
LowerMap ==
  [c \in UpperChars |-> CharAt(Lowers, CHOOSE i \in 1..Len(Uppers) : CharAt(Uppers, i) = c)]
LowerChar(c) == IF c \in UpperChars THEN LowerMap[c] ELSE c

RECURSIVE toLowerCase(_)
toLowerCase(str) ==
  IF Len(str) = 0 THEN ""
  ELSE LowerChar(CharAt(str, 1)) \o toLowerCase(SubSeq(str, 2, Len(str)))

\* A search that only looks at the start of the text.
MutIncludes(str, q) == SubSeq(str, 1, Len(q)) = q

\* String.prototype.includes
includes(str, q) ==
  \E i \in 0..(Len(str) - Len(q)) : SubSeq(str, i + 1, i + Len(q)) = q

FunctionNames == {functions[k].name : k \in 1..Len(functions)}

\* fn.name.toLowerCase(), fn.description.toLowerCase(), fn.category.toLowerCase()
LowerFunctions ==
  [k \in 1..Len(functions) |->
     IntegrationFunction(toLowerCase(functions[k].name),
                         toLowerCase(functions[k].description),
                         toLowerCase(functions[k].category))]

searchIntegrationFunction(query) ==
  LET queryLower == toLowerCase(query)
      hit == {k \in 1..Len(functions) :
                \/ includes(LowerFunctions[k].name, queryLower)
                \/ includes(LowerFunctions[k].description, queryLower)
                \/ includes(LowerFunctions[k].category, queryLower)}
  IN SelectSeq(functions, LAMBDA fn : \E k \in hit : functions[k] = fn)

\* ---------------------------------------------------------------------
\* The registry search on its own: a query text is given, and the search
\* is made again and again in the same catalogue.
QueryChars == {"e", "m", "a", "G", "z"}

RECURSIVE Strings(_)
Strings(n) ==
  IF n = 0 THEN {""}
  ELSE LET shorter == Strings(n - 1)
       IN shorter \cup {str \o c : str \in {t \in shorter : Len(t) = n - 1}, c \in QueryChars}

QueryWords ==
  {"GMAIL", "gmail", "Calendar", "EVENT", "email", "Get", "today's", "zzz",
   "send an", "inbox ", "calendars", "getEmails", "deleteCalendarEvent"}

Queries == Strings(MaxQueryLen) \cup QueryWords

InitSearch ==
  /\ apiKey = TRUE
  /\ ChatIdle
  /\ registry \in {[NoSearch EXCEPT !.query = q] : q \in Queries}
  /\ account = NoAccount
  /\ page = NoPage

\* await toolService.searchIntegrationFunction(query)
SearchStep ==
  /\ Len(registry.results) < MaxSearches
  /\ registry' = [registry EXCEPT !.results = Append(@, searchIntegrationFunction(registry.query))]
  /\ UNCHANGED <<chatVars, account, page>>

NextSearch == SearchStep

SpecSearch == InitSearch /\ [][NextSearch]_vars

\* What a tool returned: an array of so many items, an object, or nothing.
ListResult(n) == [kind |-> "list", len |-> n]
ObjectResult == [kind |-> "object", len |-> 0]
Undefined == [kind |-> "undefined", len |-> 0]

\* The parameters callIntegrationFunction checks before it calls a service.
RequiredParameters(name) ==
  CASE name = "sendEmail" -> {"to", "subject", "body"}
    [] name = "searchEmails" -> {"query"}
    [] name = "createCalendarEvent" -> {"summary", "start", "end"}
    [] name = "updateCalendarEvent" -> {"eventId", "updates"}
    [] name = "deleteCalendarEvent" -> {"eventId"}
    [] OTHER -> {}

MissingMessage(name) ==
  CASE name = "sendEmail" -> "Missing required parameters: to, subject, body"
    [] name = "searchEmails" -> "Missing required parameter: query"
    [] name = "createCalendarEvent" -> "Missing required parameters: summary, start, end"
    [] name = "updateCalendarEvent" -> "Missing required parameters: eventId, updates"
    [] OTHER -> "Missing required parameter: eventId"

\* The service methods: getValidAccessToken, then fetch, then the check of
\* response.ok.  The stored token is taken not to have expired (its expiry
\* is the subject of SpecToken).
ServiceCall(op, user, o, failure, result) ==
  IF ~user.accessToken THEN Thrown(<<>>, "No access token available")
  ELSE IF o = "net" THEN Thrown(<<op>>, "fetch failed")
  ELSE IF o = "http" THEN Thrown(<<op>>, failure)
  ELSE Done(<<op>>, result)

\* GmailService.getEmails: the list, then getEmailDetails of each message.
DbGetEmails(user, o1, o2) ==
  LET list == ServiceCall("gmail.getEmails", user, o1, "Failed to fetch emails",
                          ListResult(1))
  IN IF list.failed THEN list
     ELSE IF o2 = "net"
          THEN Thrown(<<"gmail.getEmails", "gmail.getEmailDetails">>, "fetch failed")
     ELSE IF o2 = "http"
          THEN Thrown(<<"gmail.getEmails", "gmail.getEmailDetails">>,
                      "Failed to fetch email details")
     ELSE Done(<<"gmail.getEmails", "gmail.getEmailDetails">>, ListResult(1))

DbGetEvents(user, o1) ==
  ServiceCall("calendar.getEvents", user, o1, "Failed to fetch calendar events",
              ListResult(1))

callIntegrationFunction(name, parameters, user, o1, o2) ==
  IF name \notin FunctionNames THEN Thrown(<<>>, "Function " \o name \o " not found")
  ELSE IF name = "getTodayEvents" THEN DbGetEvents(user, o1)
  ELSE IF parameters.null THEN Thrown(<<>>, "TypeError")
  ELSE IF ~(RequiredParameters(name) \subseteq parameters.keys)
       THEN Thrown(<<>>, MissingMessage(name))
  ELSE IF name \in {"getEmails", "searchEmails"} THEN DbGetEmails(user, o1, o2)
  ELSE IF name = "sendEmail"
       THEN ServiceCall("gmail.sendEmail", user, o1, "Failed to send email", ObjectResult)
  ELSE IF name = "getCalendarEvents" THEN DbGetEvents(user, o1)
  ELSE IF name = "createCalendarEvent"
       THEN ServiceCall("calendar.createEvent", user, o1,
                        "Failed to create calendar event", ObjectResult)
  ELSE IF name = "updateCalendarEvent"
       THEN ServiceCall("calendar.updateEvent", user, o1,
                        "Failed to update calendar event", ObjectResult)
  ELSE ServiceCall("calendar.deleteEvent", user, o1,
                   "Failed to delete calendar event", ObjectResult)

formatCalendarEvents(len) ==
  IF len = 0 THEN "No calendar events found."
  ELSE "I found " \o ToString(len) \o " calendar event(s):"

formatEmails(len) ==
  IF len = 0 THEN "No emails found."
  ELSE "I found " \o ToString(len) \o " email(s):"

formatToolResult(toolName, result) ==
  IF toolName = "searchIntegrationFunction"
  THEN IF result.kind = "undefined" \/ result.len = 0
       THEN "I found no relevant functions for your request."
       ELSE "I found " \o ToString(result.len) \o " relevant function(s) for your request."
  ELSE IF includes(toolName, "calendar")
  THEN IF result.kind = "list" THEN formatCalendarEvents(result.len)
       ELSE "Calendar operation completed successfully."
  ELSE IF includes(toolName, "email") \/ includes(toolName, "gmail")
  THEN IF result.kind = "list" THEN formatEmails(result.len)
       ELSE "Email operation completed successfully."
  ELSE "Operation completed successfully."

CalendarFallback == "I can help you with calendar operations like viewing events, creating meetings, and managing your schedule. However, I need a valid Mistral API key to provide intelligent responses. Please configure MISTRAL_API_KEY in your environment."
EmailFallback == "I can assist with Gmail operations including reading, sending, and organizing emails. However, I need a valid Mistral API key to provide intelligent responses. Please configure MISTRAL_API_KEY in your environment."
HelloFallback == "Hello! I'm Jarvis, your AI assistant. I can help you manage Gmail and Google Calendar, but I need a valid Mistral API key to provide intelligent responses. Please configure MISTRAL_API_KEY in your environment."

getFallbackResponse(userMessage) ==
  LET message == toLowerCase(userMessage) IN
  IF includes(message, "calendar") \/ includes(message, "event") THEN CalendarFallback
  ELSE IF includes(message, "email") \/ includes(message, "gmail") THEN EmailFallback
  ELSE HelloFallback

ExecutedMessage == "I've executed the requested operations."
HelpMessage == "I'm here to help with your Gmail and Calendar needs."

\* The body of the tool loop after JSON.parse, up to the call of the tool.
DbExecTool(name, parameters, user, o1, o2) ==
  IF parameters.null THEN Thrown(<<>>, "TypeError")
  ELSE IF name = "searchIntegrationFunction"
       THEN IF parameters.query = Absent THEN Thrown(<<>>, "TypeError")
            ELSE Done(<<>>, ListResult(Len(searchIntegrationFunction(parameters.query))))
  ELSE IF name = "callIntegrationFunction"
       THEN callIntegrationFunction(parameters.name, parameters.parameters, user, o1, o2)
  ELSE Done(<<>>, Undefined)

\* One iteration of the tool loop: what it adds to finalResponse, whether it
\* pushed {name, parameters} to toolCalls, and whether JSON.parse threw out
\* of the loop.
DbIteration(toolCall, user, o1, o2) ==
  IF toolCall.arguments.text # "json"
  THEN [toolCallId |-> toolCall.id, name |-> toolCall.name, parameters |-> DbNull,
        failed |-> TRUE, aborted |-> TRUE, value |-> "", ext |-> <<>>]
  ELSE LET parameters == toolCall.arguments.value
           x == DbExecTool(toolCall.name, parameters, user, o1, o2)
       IN [toolCallId |-> toolCall.id, name |-> toolCall.name, parameters |-> parameters,
           failed |-> x.failed, aborted |-> FALSE,
           value |-> IF x.failed
                     THEN "Error executing " \o toolCall.name \o ": " \o x.value
                     ELSE formatToolResult(toolCall.name, x.value),
           ext |-> [k \in 1..Len(x.ext) |->
                      [op |-> x.ext[k], id |-> toolCall.id,
                       outcome |-> IF k = 1 THEN o1 ELSE o2]]]

RECURSIVE Concat(_)
Concat(texts) == IF texts = <<>> THEN "" ELSE Head(texts) \o Concat(Tail(texts))

\* finalResponse and toolCalls once the loop has run over every request.
DbFinalResponse(results) == Concat([k \in 1..Len(results) |-> results[k].value])
\* Every request of the reply is pushed to toolCalls.
MutDbPushed(results) ==
  [k \in 1..Len(results) |-> [name |-> results[k].name, parameters |-> results[k].parameters]]

DbPushed(results) ==
  LET ok == SelectSeq(results, LAMBDA x : ~x.failed)
  IN [k \in 1..Len(ok) |-> [name |-> ok[k].name, parameters |-> ok[k].parameters]]

\* messages.map(msg => ({role, content})) after the system message; tools
\* and tool_choice are always sent.
DbRequestBody(list) ==
  [messages |-> <<SystemTurn>> \o
                [k \in 1..Len(list) |-> [role |-> list[k].role, content |-> list[k].content]],
   tools |-> TRUE]

\* The reply whose message has an empty tool_calls array.
EmptyCallsReply(content) == [kind |-> "emptycalls", content |-> content, tool_calls |-> <<>>]

\* POST /api/chat up to the call of the LLM: 401, or the user's row is
\* created and the rows of the conversation are read.
DbChatStart(r) ==
  /\ pc[r] = "loaded"
  /\ IF ~reqUser[r].present
     THEN /\ response' = [response EXCEPT ![r] =
                            [status |-> 401, body |-> UserTurn("Not authenticated")]]
          /\ pc' = [pc EXCEPT ![r] = "done"]
          /\ UNCHANGED <<sessionMessages, messages, llmLog>>
     ELSE LET rows == Append(sessionMessages, UserTurn(UserTexts[msgNo[r]])) IN
          /\ sessionMessages' = rows
          /\ messages' = [messages EXCEPT ![r] = rows]
          /\ llmLog' = [llmLog EXCEPT ![r] = <<DbRequestBody(rows)>>]
          /\ pc' = [pc EXCEPT ![r] = "await1"]
          /\ UNCHANGED response
  /\ UNCHANGED <<account, page, registry, apiKey, sessionUser, sent, reqUser, msgNo, replies, toolCalls,
                 toolResults, extLog>>

\* The assistant's row is created and the response is sent.
DbFinish(r, content, calls) ==
  /\ sessionMessages' = Append(sessionMessages, AssistantTurn(content, calls))
  /\ response' = [response EXCEPT ![r] =
                    [status |-> 200, body |-> AssistantTurn(content, calls)]]
  /\ pc' = [pc EXCEPT ![r] = "done"]

\* What is caught by the catch of getChatResponse.
DbFallback(r) == getFallbackResponse(UserTexts[msgNo[r]])

\* The reply of the LLM arrives.
DbReply(r, reply) ==
  /\ pc[r] = "await1"
  /\ replies' = [replies EXCEPT ![r] = <<reply>>]
  /\ IF reply.kind \notin {"ok", "emptycalls"}
     THEN DbFinish(r, DbFallback(r), <<>>) /\ UNCHANGED toolCalls
     ELSE IF reply.kind = "emptycalls"
     THEN DbFinish(r, ExecutedMessage, <<>>) /\ UNCHANGED toolCalls
     ELSE IF reply.tool_calls = <<>>
     THEN /\ DbFinish(r, IF reply.content = "" THEN HelpMessage ELSE reply.content, <<>>)
          /\ UNCHANGED toolCalls
     ELSE /\ toolCalls' = [toolCalls EXCEPT ![r] = reply.tool_calls]
          /\ pc' = [pc EXCEPT ![r] = "tools"]
          /\ UNCHANGED <<sessionMessages, response>>
  /\ UNCHANGED <<account, page, registry, apiKey, sessionUser, sent, reqUser, messages, msgNo, toolResults,
                 llmLog, extLog>>

\* One iteration of the tool loop of getChatResponse; after the last one,
\* or when JSON.parse throws, the handler goes on to the end.
DbToolStep(r, o1, o2) ==
  /\ pc[r] = "tools"
  /\ Len(toolResults[r]) < Len(toolCalls[r])
  /\ LET it == DbIteration(toolCalls[r][Len(toolResults[r]) + 1], reqUser[r], o1, o2)
         results == Append(toolResults[r], it)
     IN /\ toolResults' = [toolResults EXCEPT ![r] = results]
        /\ extLog' = [extLog EXCEPT ![r] = @ \o it.ext]
        /\ IF it.aborted
           THEN DbFinish(r, DbFallback(r), <<>>)
           ELSE IF Len(results) = Len(toolCalls[r])
           THEN DbFinish(r, DbFinalResponse(results), DbPushed(results))
           ELSE UNCHANGED <<sessionMessages, response, pc>>
  /\ UNCHANGED <<account, page, registry, apiKey, sessionUser, sent, reqUser, messages, msgNo, replies,
                 toolCalls, llmLog>>

\* SpecDb: one page and one exchange on the database-backed server.
DbNames == {"searchIntegrationFunction", "callIntegrationFunction", UnknownName}
DbArgTexts ==
  {DbMalformed, DbEmptyString, JsonText(DbNull),
   JsonText(DbArgs("calendar", Absent, NullArgs)),
   JsonText(DbArgs("zzz", Absent, NullArgs)),
   JsonText(DbArgs(Absent, "sendEmail", ObjArgs(ArgKeys))),
   JsonText(DbArgs(Absent, "sendEmail", ObjArgs({"to", "subject"}))),
   JsonText(DbArgs(Absent, "getCalendarEvents", ObjArgs({}))),
   JsonText(DbArgs(Absent, UnknownName, ObjArgs({})))}
DbReplies ==
  IF apiKey
  THEN {Failure(k) : k \in FailureKinds} \cup OkReplies(DbNames, DbArgTexts) \cup
       {EmptyCallsReply(c) : c \in ReplyTexts}
  ELSE {Failure("nokey")}

DbLoginStep == \E token \in BOOLEAN : Login(token)
DbReceiveStep == Receive("tab1", DbExchanges)
DbChatStartStep == DbChatStart("tab1")
DbReplyStep == pc["tab1"] = "await1" /\ \E reply \in DbReplies : DbReply("tab1", reply)
DbToolStepStep == \E o1 \in ExtOutcomes : DbToolStep("tab1", o1, "ok")

NextDb ==
  \/ DbLoginStep
  \/ DbReceiveStep
  \/ DbChatStartStep
  \/ DbReplyStep
  \/ DbToolStepStep

SpecDb == Init /\ [][NextDb]_vars

\* ---------------------------------------------------------------------
\* The access token of the database-backed services.  The tokens Google
\* issues are numbered: 0 is the one of the OAuth callback, n the one of the
\* n-th refresh.

\* The service methods that start with getValidAccessToken.
ServiceOps == {"calendar.getEvents", "gmail.getEmails", "gmail.getEmailDetails"}

NoToken == 0 - 1

\* getValidAccessToken(user): the stored token, or the one a refresh gives
\* when new Date() > user.tokenExpiry.  refreshOk is whether
\* googleAuthService.refreshToken gets a 2xx response.
getValidAccessToken(user, issued, refreshOk) ==
  IF user.expired
  THEN IF ~user.refreshToken
       THEN [thrown |-> TRUE, refreshed |-> FALSE, token |-> NoToken]
       ELSE IF ~refreshOk
            THEN [thrown |-> TRUE, refreshed |-> FALSE, token |-> NoToken]
            ELSE [thrown |-> FALSE, refreshed |-> TRUE, token |-> issued + 1]
  ELSE [thrown |-> FALSE, refreshed |-> FALSE, token |-> user.accessToken]

\* The clock passes user.tokenExpiry.
TokenExpire ==
  /\ ~account.user.expired
  /\ account' = [account EXCEPT !.user.expired = TRUE]
  /\ UNCHANGED <<chatVars, registry, page>>

\* POST /api/chat: const user = await storage.getUser(userId).  The row is
\* read as it is stored.
TokenExchange ==
  /\ account.exchange < MaxTokenExchanges
  /\ account' = [account EXCEPT !.exchange = @ + 1]
  /\ UNCHANGED <<chatVars, registry, page>>

\* One service method called by a tool of the exchange: the token is
\* obtained and sent as the Bearer token of the fetch.  Nothing is written
\* to user or to the users table.
TokenCall(op, refreshOk) ==
  /\ account.exchange >= 1
  /\ Len(account.calls) < MaxServiceCalls
  /\ LET got == getValidAccessToken(account.user, account.issued, refreshOk) IN
     account' = [account EXCEPT
                   !.issued = IF got.refreshed THEN @ + 1 ELSE @,
                   !.calls = Append(@, [op |-> op, exchange |-> account.exchange,
                                        thrown |-> got.thrown, refreshed |-> got.refreshed,
                                        token |-> got.token])]
  /\ UNCHANGED <<chatVars, registry, page>>

InitToken ==
  /\ apiKey = TRUE
  /\ ChatIdle
  /\ registry = NoSearch
  /\ account \in {[NoAccount EXCEPT !.user.refreshToken = t] : t \in BOOLEAN}
  /\ page = NoPage

TokenCallStep == \E op \in ServiceOps, refreshOk \in BOOLEAN : TokenCall(op, refreshOk)

NextToken ==
  \/ TokenExpire
  \/ TokenExchange
  \/ TokenCallStep

SpecToken == InitToken /\ [][NextToken]_vars

\* ---------------------------------------------------------------------
\* The embedded chat page.  outstanding counts the fetches of /api/chat
\* that have not settled, clicks the calls of sendMessage, ignored those
\* that returned at once because isLoading was true.

\* What the user may have typed: nothing, a blank, a message.
Inputs == {"", " ", "hi"}

\* String.prototype.trim
RECURSIVE trim(_)
trim(str) ==
  IF Len(str) = 0 THEN ""
  ELSE IF CharAt(str, 1) = " " THEN trim(SubSeq(str, 2, Len(str)))
  ELSE IF CharAt(str, Len(str)) = " " THEN trim(SubSeq(str, 1, Len(str) - 1))
  ELSE str

PageErrorText == "Sorry, I encountered an error. Please try again."

\* How the fetch of /api/chat settles:
\*   "ok"       status 200, the body is the assistant turn
\*   "status"   401 or 500, the body is JSON without content
\*   "network"  fetch rejects
\*   "badjson"  response.json() rejects
FetchOutcomes == {"ok", "status", "network", "badjson"}

Shown(role, content) == [role |-> role, content |-> content]

\* addMessage('assistant', ...) of the try block or of the catch block.
Displayed(outcome) ==
  IF outcome = "ok" THEN Shown("assistant", "text")
  ELSE IF outcome = "status" THEN Shown("assistant", "undefined")
  ELSE Shown("assistant", PageErrorText)

\* sendMessage never finds a request in flight.
MutBusy(p) == FALSE

\* if (isLoading) return;
Busy(p) == p.isLoading

\* The user types in messageInput.
PageType(text) ==
  /\ page.input # text
  /\ page' = [page EXCEPT !.input = text]
  /\ UNCHANGED <<chatVars, registry, account>>

\* sendMessage() up to its await: the button is clicked or Enter is hit.
sendMessage ==
  /\ page.clicks < MaxClicks
  /\ IF Busy(page)
     THEN page' = [page EXCEPT !.clicks = @ + 1, !.ignored = @ + 1]
     ELSE IF trim(page.input) = ""
     THEN page' = [page EXCEPT !.clicks = @ + 1]
     ELSE page' = [page EXCEPT !.clicks = @ + 1,
                               !.input = "",
                               !.isLoading = TRUE,
                               !.outstanding = @ + 1,
                               !.shown = Append(@, Shown("user", trim(page.input)))]
  /\ UNCHANGED <<chatVars, registry, account>>

\* sendMessage() after its await: the fetch has settled.
PageSettle(outcome) ==
  /\ page.outstanding > 0
  /\ page' = [page EXCEPT !.outstanding = @ - 1,
                           !.isLoading = FALSE,
                           !.shown = Append(@, Displayed(outcome))]
  /\ UNCHANGED <<chatVars, registry, account>>

InitPage ==
  /\ apiKey = TRUE
  /\ ChatIdle
  /\ registry = NoSearch
  /\ account = NoAccount
  /\ page = NoPage

PageTypeStep == \E text \in Inputs : PageType(text)
PageSettleStep == \E outcome \in FetchOutcomes : PageSettle(outcome)

NextPage ==
  \/ PageTypeStep
  \/ sendMessage
  \/ PageSettleStep

SpecPage == InitPage /\ [][NextPage]_vars

\* ------------------------------------------------------------------ claims
\* Where the user turn of the request's exchange stands in its messages.
UserPos(r) ==
  CHOOSE p \in 1..Len(messages[r]) :
    messages[r][p] = UserTurn(UserTexts[msgNo[r]])

\* The turns the exchange of request r has appended after its user turn.
Appended(r) == SubSeq(messages[r], UserPos(r) + 1, Len(messages[r]))

IsTool(m) == m.role = "tool"

\* The ids a list of tool turns answers, in order.
AnsweredIds(turns) == [k \in 1..Len(turns) |-> turns[k].tool_call_id]

\* The ids of a list of tool-call requests, in order.
IdsOf(calls) == [k \in 1..Len(calls) |-> calls[k].id]

\* The tool-call requests of the first reply, as the provider sent them.
Requests(r) == IF replies[r] = <<>> THEN <<>> ELSE replies[r][1].tool_calls

\* The exchange has run its tools and pushed their turns.
ToolsAnswered(r) == pc[r] \in {"await2", "done"} /\ Len(Requests(r)) >= 1

\* C1: a reply carrying n >= 1 tool-call requests makes the exchange append
\* exactly n tool turns, in the order of the requests, the k-th with the
\* k-th request's id as tool_call_id, whatever the outcome of each call.
C1_ToolTurnsMatchRequests ==
  \A r \in Reqs :
    ToolsAnswered(r) =>
      AnsweredIds(SelectSeq(Appended(r), IsTool)) = IdsOf(Requests(r))

\* Two requests answered out of id order, the first call failed and the
\* second named an unknown tool.
C1_Witness ==
  \E r \in Reqs :
    /\ pc[r] = "done"
    /\ Len(Requests(r)) = 2
    /\ Requests(r)[1].id = "call_b"
    /\ toolResults[r][1].failed
    /\ Requests(r)[2].name = UnknownName
    /\ Len(SelectSeq(Appended(r), IsTool)) = 2

\* The messages of the second call of getChatResponse of request r.
SecondCallMessages(r) == llmLog[r][2].messages

\* C3: in an exchange whose first reply carries n >= 1 requests, the list
\* sent in the second call holds the assistant turn listing the n requests,
\* immediately followed by n tool turns in request order, the k-th with the
\* k-th request's id: no tool turn of the exchange is missing.
C3_SecondCallCarriesEveryToolTurn ==
  \A r \in Reqs :
    ToolsAnswered(r) =>
      LET list == SecondCallMessages(r)
          n == Len(Requests(r))
          q == Len(list) - n
      IN /\ q >= 1
         /\ list[q].role = "assistant"
         /\ IdsOf(list[q].tool_calls) = IdsOf(Requests(r))
         /\ \A k \in 1..n :
              /\ list[q + k].role = "tool"
              /\ list[q + k].tool_call_id = Requests(r)[k].id

\* The fixed text getChatResponse answers with when the call fails.
ApologyFor(kind) == IF kind = "nomessage" THEN TroubleMessage ELSE SorryMessage

LastOf(seq) == seq[Len(seq)]

\* C5: when a call of getChatResponse fails, the first or the second of the
\* exchange, the fixed apology with no tool calls is appended as the
\* assistant turn and the exchange ends with a normal response carrying it.
C5_FailedCallEndsWithApology ==
  \A r \in Reqs :
    (replies[r] # <<>> /\ LastOf(replies[r]).kind # "ok") =>
      LET apology == AssistantTurn(ApologyFor(LastOf(replies[r]).kind), <<>>)
      IN /\ pc[r] = "done"
         /\ LastOf(messages[r]) = apology
         /\ response[r] = [status |-> 200, body |-> apology]
         /\ LastOf(sessionMessages) = apology

\* Only the last call of an exchange can have failed: a failed first call
\* is not followed by a second one.
C5_Witness ==
  \E r \in Reqs :
    /\ pc[r] = "done"
    /\ Len(replies[r]) = 2
    /\ replies[r][2].kind = "nomessage"
    /\ response[r].body.content = TroubleMessage

\* C9: the second call of getChatResponse of an exchange carries no tools
\* and no tool_choice.
C9_SecondCallOffersNoTools ==
  \A r \in Reqs : Len(llmLog[r]) >= 2 => ~llmLog[r][2].tools

\* The ids of the results of handleToolCalls, in order.
ResultIds(results) == [k \in 1..Len(results) |-> results[k].toolCallId]

PairedAt(list, p) ==
  LET m == list[p] IN
  /\ m.role = "tool" =>
       \E q \in 1..(p - 1) :
         /\ list[q].role = "assistant"
         /\ p - q <= Len(list[q].tool_calls)
         /\ list[q].tool_calls[p - q].id = m.tool_call_id
         /\ \A j \in (q + 1)..(p - 1) : list[j].role = "tool"
  /\ (m.role = "assistant" /\ m.tool_calls # <<>>) =>
       \A k \in 1..Len(m.tool_calls) :
         /\ p + k <= Len(list)
         /\ list[p + k].role = "tool"
         /\ list[p + k].tool_call_id = m.tool_calls[k].id

\* C2: after any sequence of exchanges the stored conversation, cut to its
\* last 10 turns, never holds a tool turn without the assistant turn whose
\* tool_calls it answers, nor such an assistant turn without all of its tool
\* turns.
C2_TruncationKeepsPairs ==
  \A p \in 1..Len(sessionMessages) : PairedAt(sessionMessages, p)

InFlight(r) == pc[r] \notin {"idle", "done"}
Completed(r) == pc[r] = "done" /\ response[r].status = 200
HasTurn(list, turn) == \E p \in 1..Len(list) : list[p] = turn

\* C4: two /api/chat requests of one session never overlap between the load
\* of the conversation and its store, and the user turn of a completed
\* exchange is in the stored conversation (which, over MaxExchanges
\* exchanges, is never long enough to be cut).
C4_ExchangesDoNotInterleave ==
  /\ \A r1, r2 \in Reqs : (InFlight(r1) /\ InFlight(r2)) => r1 = r2
  /\ \A r \in Reqs :
       Completed(r) => HasTurn(sessionMessages, UserTurn(UserTexts[msgNo[r]]))

\* throw new Error("Missing required parameters: to, subject, body")
MissingParameter == "Missing required parameters: to, subject, body"

\* How many times Gmail's send was called for the request with this id.
SendCalls(r, id) ==
  Cardinality({k \in 1..Len(extLog[r]) :
                 extLog[r][k].op = "gmail.sendEmail" /\ extLog[r][k].id = id})

\* C7: a send_email request with to, subject and body sends exactly one
\* mail; one that leaves any of the three out fails with the missing
\* parameter error and sends none.
C7_SendEmailValidated ==
  \A r \in Reqs : \A k \in 1..Len(toolResults[r]) :
    LET call == toolCalls[r][k] IN
    (call.name = "send_email" /\ ~call.arguments.null) =>
      IF ArgKeys \subseteq call.arguments.keys
      THEN SendCalls(r, call.id) = 1
      ELSE /\ toolResults[r][k].failed
           /\ toolResults[r][k].value = MissingParameter
           /\ SendCalls(r, call.id) = 0

\* The calendar listing behind the request at position k did not succeed.
CalendarFailed(r, k) ==
  \E j \in 1..Len(extLog[r]) :
    /\ extLog[r][j].id = toolCalls[r][k].id
    /\ extLog[r][j].op = "calendar.getEvents"
    /\ extLog[r][j].outcome # "ok"

\* C8: when the calendar listing behind get_calendar_events fails, the
\* request's result is an error, its tool turn holds the error message, the
\* second LLM call is made and the exchange is answered with status 200.
C8_CalendarFailureIsReported ==
  \A r \in Reqs : \A k \in 1..Len(toolResults[r]) :
    CalendarFailed(r, k) =>
      /\ toolResults[r][k].failed
      /\ toolResults[r][k].value \in ErrorTexts
      /\ pc[r] \in {"await2", "done"} =>
           /\ Len(llmLog[r]) = 2
           /\ SelectSeq(Appended(r), IsTool)[k].content \in ErrorTexts
      /\ pc[r] = "done" => response[r].status = 200

\* C6: when the exchange ends, every tool-call request of the reply has been
\* taken up once, in order, whether the requests before it failed or not.
C6_EveryRequestAttempted ==
  \A r \in Reqs :
    (pc[r] = "done" /\ response[r].status = 200) =>
      ResultIds(toolResults[r]) = IdsOf(Requests(r))

\* C11: the first call of getChatResponse of an exchange carries the tool
\* definitions exactly when the user has an access token, and with no access
\* token the exchange executes no tool call and calls no collaborator.
C11_ToolsOnlyWithCredentials ==
  \A r \in Reqs :
    Len(llmLog[r]) >= 1 =>
      /\ llmLog[r][1].tools <=> reqUser[r].accessToken
      /\ ~reqUser[r].accessToken =>
           /\ toolCalls[r] = <<>>
           /\ toolResults[r] = <<>>
           /\ extLog[r] = <<>>
           /\ \A k \in 1..Len(messages[r]) : messages[r][k].role # "tool"

C11_Witness ==
  \E r \in Reqs :
    /\ pc[r] = "done"
    /\ reqUser[r].present /\ ~reqUser[r].accessToken
    /\ response[r] = [status |-> 200, body |-> AssistantTurn("text", <<>>)]
    /\ ~llmLog[r][1].tools

\* The position in the reply of the request with this id.
PosOf(r, id) == CHOOSE k \in 1..Len(toolCalls[r]) : toolCalls[r][k].id = id

\* C12: the requests of one reply are executed one at a time in request
\* order: a fetch that has not been answered belongs to the request next
\* after those that have their results, every other fetch belongs to a
\* request that has its result, and the fetches were sent in request order.
C12_OneRequestAtATime ==
  \A r \in Reqs : \A j \in 1..Len(extLog[r]) :
    LET k == PosOf(r, extLog[r][j].id) IN
    /\ extLog[r][j].outcome = "pending" => k = Len(toolResults[r]) + 1
    /\ extLog[r][j].outcome # "pending" => k <= Len(toolResults[r])
    /\ \A i \in 1..(j - 1) : PosOf(r, extLog[r][i].id) < k

C12_Witness ==
  \E r \in Reqs :
    /\ pc[r] = "tools"
    /\ Len(toolCalls[r]) = 2
    /\ Len(toolResults[r]) = 1 /\ toolResults[r][1].failed
    /\ Len(extLog[r]) = 2
    /\ extLog[r][1].outcome = "net"
    /\ extLog[r][2] = [op |-> "calendar.getEvents", id |-> toolCalls[r][2].id,
                       outcome |-> "pending"]

\* How many results handleToolCalls has pushed for the request with this id.
ResultsFor(r, id) ==
  Cardinality({k \in 1..Len(toolResults[r]) : toolResults[r][k].toolCallId = id})

\* How many times the operation op was called for the request with this id.
CallsFor(r, id, op) ==
  Cardinality({j \in 1..Len(extLog[r]) : extLog[r][j].id = id /\ extLog[r][j].op = op})

\* C13: over an exchange each tool-call id is executed at most once: it gets
\* at most one result and each collaborator operation is called at most
\* once for it; a request that has its result, failed or not, has called
\* its operation exactly once, also when another request of the reply names
\* the same tool.
C13_AtMostOncePerId ==
  \A r \in Reqs : \A k \in 1..Len(toolCalls[r]) :
    LET call == toolCalls[r][k] IN
    /\ ResultsFor(r, call.id) <= 1
    /\ \A j \in 1..Len(extLog[r]) : CallsFor(r, extLog[r][j].id, extLog[r][j].op) <= 1
    /\ k <= Len(toolResults[r]) =>
         /\ ResultsFor(r, call.id) = 1
         /\ FirstOp(call) # "none" => CallsFor(r, call.id, FirstOp(call)) = 1
         /\ FirstOp(call) = "none" =>
              \A j \in 1..Len(extLog[r]) : extLog[r][j].id # call.id

C13_Witness ==
  \E r \in Reqs :
    /\ pc[r] = "done"
    /\ Len(toolCalls[r]) = 2
    /\ toolCalls[r][1].name = "get_calendar_events"
    /\ toolCalls[r][2].name = "get_calendar_events"
    /\ toolResults[r][1].failed
    /\ Len(toolResults[r]) = 2
    /\ Len(extLog[r]) = 2

\* The tool turns the exchange of request r has appended.
ToolTurns(r) == SelectSeq(Appended(r), IsTool)

\* The entries of the log made for the request with this id.
LogFor(r, id) == SelectSeq(extLog[r], LAMBDA e : e.id = id)

\* C14: a request for a tool that is not in the catalogue calls no
\* collaborator and is answered by a tool turn that holds the error text
\* naming it; every other request of the reply has the result and the tool
\* turn its own execution gives.
C14_UnknownToolIsAnswered ==
  \A r \in Reqs : \A k \in 1..Len(toolResults[r]) :
    LET call == toolCalls[r][k] IN
    IF call.name \notin ToolNames
    THEN /\ LogFor(r, call.id) = <<>>
         /\ includes(toolResults[r][k].value, "Unknown tool call: " \o call.name)
         /\ pc[r] \in {"await2", "done"} =>
              /\ ToolTurns(r)[k].tool_call_id = call.id
              /\ includes(ToolTurns(r)[k].content, "\"error\"")
    ELSE /\ \E o \in ExtOutcomes :
              /\ toolResults[r][k] = ToolResult(call, o, "ok")
              /\ LogFor(r, call.id) = ExtCalls(call, o, "ok")
         /\ pc[r] \in {"await2", "done"} =>
              ToolTurns(r)[k] = ToolTurn(toolResults[r][k].value, call.id)

C14_Witness ==
  \E r \in Reqs :
    /\ pc[r] = "done"
    /\ Len(toolCalls[r]) = 2
    /\ toolCalls[r][1].name = UnknownName
    /\ toolCalls[r][2].name = "get_calendar_events"
    /\ ToolTurns(r)[1].content = "{\"error\":\"Unknown tool call: foo_bar\"}"
    /\ ToolTurns(r)[2].content = "events"
    /\ Len(extLog[r]) = 1

\* C15: a request whose argument text is empty or is not JSON is executed
\* with the arguments {}: the loop goes on over every request of the reply
\* and the exchange does not end in the fallback.
C15_UnparsableArgumentsAreEmpty ==
  \A r \in Reqs : \A k \in 1..Len(toolResults[r]) :
    toolCalls[r][k].arguments.text # "json" =>
      /\ ~toolResults[r][k].aborted
      /\ toolResults[r][k].parameters = DbEmptyObject
      /\ pc[r] = "done" =>
           /\ Len(toolResults[r]) = Len(toolCalls[r])
           /\ response[r].body.content = DbFinalResponse(toolResults[r])

\* C16: the answer to a request of an authenticated user is an assistant
\* turn with a text that is not empty, whatever failed in the exchange.
C16_ReplyIsNeverEmpty ==
  \A r \in Reqs :
    (pc[r] = "done" /\ reqUser[r].present) =>
      /\ response[r].status = 200
      /\ response[r].body.role = "assistant"
      /\ response[r].body.content # ""

\* The handler of request r has answered: it sent 401, or it stored the
\* conversation ending with the final assistant turn and sent that turn.
Answers(r) ==
  /\ pc[r] = "done"
  /\ \/ response[r].status = 401
     \/ /\ response[r].status = 200
        /\ response[r].body.role = "assistant"
        /\ response[r].body.tool_calls = <<>>
        /\ LastOf(sessionMessages) = response[r].body

\* C17: when every call of the LLM and every fetch is answered in the end,
\* each request that has arrived is answered in the end: the final assistant
\* turn is appended, the conversation stored and the response sent.
C17_ExchangeReachesDone ==
  \A r \in Reqs : (pc[r] = "loaded") ~> Answers(r)

C17_Witness ==
  \E r \in Reqs :
    /\ Answers(r)
    /\ msgNo[r] = MaxExchanges
    /\ Len(toolResults[r]) = MaxCalls
    /\ toolResults[r][1].failed
    /\ replies[r][2].kind = "network"

\* ---------------------------------------------------------------------
\* The registry search.

\* text contains q, letter case set aside: at some position every letter
\* of q equals the letter of text there, once both are lowered.
ContainsCI(text, q) ==
  \E i \in 0..(Len(text) - Len(q)) :
    \A j \in 1..Len(q) : LowerChar(CharAt(text, i + j)) = LowerChar(CharAt(q, j))

Matches(fn, q) ==
  ContainsCI(fn.name, q) \/ ContainsCI(fn.description, q) \/ ContainsCI(fn.category, q)

\* C18: a search for the empty text, or for a text that no descriptor
\* contains, finds nothing: its result is the empty sequence.
C18_EmptySearchFindsNothing ==
  \A i \in 1..Len(registry.results) :
    (\/ registry.query = ""
     \/ \A k \in 1..Len(registry.functions) : ~Matches(registry.functions[k], registry.query))
      => registry.results[i] = <<>>

\* C19: every search returns exactly the descriptors whose name,
\* description or category contains the query text, letter case set aside,
\* in the order of the catalogue; searching again returns the same
\* sequence, and the catalogue stays as it was.
C19_SearchIsExactFilter ==
  /\ registry.functions = functions
  /\ \A i \in 1..Len(registry.results) :
       registry.results[i] =
         SelectSeq(registry.functions, LAMBDA fn : Matches(fn, registry.query))
  /\ \A i, j \in 1..Len(registry.results) : registry.results[i] = registry.results[j]

\* The query GMAIL, in capitals, searched twice: the three gmail
\* descriptors are found both times.
C19_Witness ==
  /\ registry.query = "GMAIL"
  /\ Len(registry.results) = 2
  /\ Len(registry.results[1]) = 3
  /\ registry.results[1][1].name = "getEmails"

\* ---------------------------------------------------------------------
\* The stored conversation.

\* This step ends the exchange of request r with its final assistant turn.
Completes(r) == pc[r] # "done" /\ pc'[r] = "done" /\ response'[r].status = 200

\* The turns the exchange of request r appended, its user turn first, seen
\* at the step that ends it.
ExchangeTurns(r) ==
  LET final == messages'[r]
      p == CHOOSE p \in 1..Len(final) : final[p] = UserTurn(UserTexts[msgNo[r]])
  IN SubSeq(final, p, Len(final))

\* The last min(MaxHistory, L) turns of a sequence of L turns.
LastTurns(whole) ==
  LET L == Len(whole)
      kept == IF L < MaxHistory THEN L ELSE MaxHistory
  IN SubSeq(whole, L - kept + 1, L)

\* C20: the step that completes an exchange stores the last min(10, L)
\* turns of the previously stored turns followed by the turns of that
\* exchange, unchanged and in order; no other step changes the stored
\* conversation, which therefore never holds more than 10 turns.
C20_StoredIsLastTenOfPreviousAndAppended ==
  [][ /\ \A r \in Reqs :
           Completes(r) => sessionMessages' = LastTurns(sessionMessages \o ExchangeTurns(r))
      /\ sessionMessages' # sessionMessages => \E r \in Reqs : Completes(r)
      /\ Len(sessionMessages') <= MaxHistory ]_vars

\* ---------------------------------------------------------------------
\* The system turn.

IsSystem(m) == m.role = "system"

\* C21: every message list sent to the LLM starts with the system turn and
\* holds no other system turn, and neither the stored conversation nor the
\* working copy of a request ever holds a system turn.
C21_OneSystemTurnNeverStored ==
  /\ \A r \in Reqs : \A k \in 1..Len(llmLog[r]) :
       LET sentList == llmLog[r][k].messages IN
       /\ Len(sentList) >= 1
       /\ sentList[1] = SystemTurn
       /\ \A p \in 2..Len(sentList) : ~IsSystem(sentList[p])
  /\ \A p \in 1..Len(sessionMessages) : ~IsSystem(sessionMessages[p])
  /\ \A r \in Reqs : \A p \in 1..Len(messages[r]) : ~IsSystem(messages[r][p])

\* The last exchange, with a stored conversation behind it, has made its
\* second call: the list sent holds the system turn and more than ten turns.
C21_Witness ==
  \E r \in Reqs :
    /\ msgNo[r] = HistoryExchanges
    /\ Len(llmLog[r]) = 2
    /\ Len(llmLog[r][2].messages) > MaxHistory
    /\ Len(sessionMessages) >= 4

\* ---------------------------------------------------------------------
\* Tool turns sent upstream.

\* The turn at position p answers a request of an assistant turn before it,
\* with only tool turns in between.
Anchored(list, p) ==
  \E q \in 1..(p - 1) :
    /\ list[q].role = "assistant"
    /\ \E c \in 1..Len(list[q].tool_calls) : list[q].tool_calls[c].id = list[p].tool_call_id
    /\ \A b \in (q + 1)..(p - 1) : IsTool(list[b])

\* C22: in every message list sent upstream, every tool turn is preceded,
\* with only tool turns in between, by an assistant turn whose tool_calls
\* holds its tool_call_id; a tool turn that truncation left without that
\* assistant turn is not sent.
C22_SentToolTurnsAreAnchored ==
  \A r \in Reqs : \A k \in 1..Len(llmLog[r]) :
    LET sentList == llmLog[r][k].messages IN
    \A p \in 1..Len(sentList) : IsTool(sentList[p]) => Anchored(sentList, p)

\* The conversation a request loaded starts with a tool turn that truncation
\* cut from its assistant turn, and the first call has been made without it.
C22_Witness ==
  \E r \in Reqs :
    /\ pc[r] = "await1"
    /\ IsTool(messages[r][1])
    /\ ~Anchored(messages[r], 1)
    /\ Len(llmLog[r]) = 1
    /\ ~IsTool(llmLog[r][1].messages[2])

\* ---------------------------------------------------------------------
\* delete_calendar_event.

\* JSON.stringify({ success: true })
SuccessOnly == "{\"success\":true}"

\* C23: a delete_calendar_event request that carries an event_id calls the
\* calendar's delete exactly once, and when the delete succeeds the tool
\* turn of the request holds the JSON text of {success: true}.
C23_DeleteEmbedsSuccess ==
  \A r \in Reqs : \A k \in 1..Len(toolResults[r]) :
    LET call == toolCalls[r][k] IN
    (/\ call.name = "delete_calendar_event"
     /\ ~call.arguments.null
     /\ "event_id" \in call.arguments.keys) =>
      /\ CallsFor(r, call.id, "calendar.deleteEvent") = 1
      /\ (\A j \in 1..Len(extLog[r]) :
            extLog[r][j].id = call.id => extLog[r][j].outcome = "ok") =>
           /\ ~toolResults[r][k].failed
           /\ ToolMessage(toolResults[r][k]).content = SuccessOnly

\* ---------------------------------------------------------------------
\* The refreshed access token.

\* C24: once a call has refreshed the access token, every later call uses
\* the refreshed token and refreshes nothing, in the same exchange and in
\* later ones, and the refreshed token is the one stored on the user.
C24_RefreshedTokenIsKept ==
  /\ \A i, j \in 1..Len(account.calls) :
       (i < j /\ account.calls[i].refreshed /\ ~account.calls[j].thrown) =>
         /\ account.calls[j].token = account.calls[i].token
         /\ ~account.calls[j].refreshed
  /\ account.issued >= 1 => account.user.accessToken = account.issued

\* ---------------------------------------------------------------------
\* Required parameters.

\* C25: a request for a tool of the catalogue that lacks a parameter the
\* tool's definition marks required fails with a missing-parameter error
\* and calls no collaborator; with every required parameter present its
\* operation is called exactly once.
C25_RequiredParametersChecked ==
  \A r \in Reqs : \A k \in 1..Len(toolResults[r]) :
    LET call == toolCalls[r][k] IN
    (call.name \in ToolNames /\ ~call.arguments.null) =>
      IF Required(call.name) \subseteq call.arguments.keys
      THEN CallsFor(r, call.id, FirstOp(call)) = 1
      ELSE /\ toolResults[r][k].failed
           /\ includes(toolResults[r][k].value, "Missing required parameter")
           /\ LogFor(r, call.id) = <<>>

\* ---------------------------------------------------------------------
\* The assistant turn that carries the requests.

\* The turn pushed right after the user turn of the exchange of request r.
RequestTurn(r) == messages[r][UserPos(r) + 1]

\* C26: when the first reply carries tool-call requests, the assistant turn
\* pushed before the tools run holds every request of the reply in order,
\* with its id, its name and (for arguments that are JSON) its arguments,
\* and its content is the text of the reply, the empty string when the
\* reply had none.
C26_RequestTurnKeepsReply ==
  \A r \in Reqs :
    (pc[r] \in {"tools", "await2", "done"} /\ Len(Requests(r)) >= 1) =>
      LET turn == RequestTurn(r)
          asked == Requests(r)
      IN /\ turn.role = "assistant"
         /\ Len(turn.tool_calls) = Len(asked)
         /\ \A k \in 1..Len(asked) :
              /\ turn.tool_calls[k].id = asked[k].id
              /\ turn.tool_calls[k].name = asked[k].name
              /\ asked[k].arguments.text = "json" =>
                   turn.tool_calls[k].arguments = asked[k].arguments
         /\ turn.content = replies[r][1].content

\* ---------------------------------------------------------------------
\* The turns of a completed exchange.

\* The turns the exchange of request r has pushed, its user turn first.
ExchangeOf(r) == SubSeq(messages[r], UserPos(r), Len(messages[r]))

\* C27: a completed exchange whose first reply carried n >= 1 requests has
\* appended the user turn, one assistant turn with tool_calls, n tool turns
\* and one assistant turn without tool_calls, in this order; one whose reply
\* carried none has appended the user turn and one assistant turn; the
\* response is the last assistant turn.
C27_TurnsOfAnExchange ==
  \A r \in Reqs :
    Completed(r) =>
      LET turns == ExchangeOf(r)
          n == Len(Requests(r))
      IN /\ turns[1] = UserTurn(UserTexts[msgNo[r]])
         /\ IF n >= 1
            THEN /\ Len(turns) = n + 3
                 /\ turns[2].role = "assistant" /\ Len(turns[2].tool_calls) = n
                 /\ \A k \in 3..(n + 2) : IsTool(turns[k])
            ELSE Len(turns) = 2
         /\ turns[Len(turns)].role = "assistant"
         /\ turns[Len(turns)].tool_calls = <<>>
         /\ response[r].body = turns[Len(turns)]

\* An exchange with two requests has completed: five turns.
C27_Witness ==
  \E r \in Reqs :
    /\ Completed(r)
    /\ Len(Requests(r)) = 2
    /\ Len(ExchangeOf(r)) = 5
    /\ response[r].body.content = "text"

\* ---------------------------------------------------------------------
\* The page's request in flight.

\* C28: at most one request of the page is outstanding at any time, and
\* isLoading is true exactly while it is: a call of sendMessage made
\* meanwhile starts nothing, and isLoading is false again when the request
\* has settled, whatever its outcome.
C28_OneRequestPerPage ==
  /\ page.outstanding <= 1
  /\ page.isLoading <=> page.outstanding = 1

\* A request has failed and isLoading is false again, and a call of
\* sendMessage made while a request was in flight was ignored.
C28_Witness ==
  /\ ~page.isLoading
  /\ page.outstanding = 0
  /\ page.ignored >= 1
  /\ \E k \in 1..Len(page.shown) : page.shown[k].content = PageErrorText

\* ---------------------------------------------------------------------
\* Requests without a user.

\* The step ends the request r, which came without a session user.
Refused(r) == pc[r] = "loaded" /\ ~reqUser[r].present /\ pc'[r] # "loaded"

Succeeded(r) ==
  LET ok == SelectSeq(toolResults[r], LAMBDA x : ~x.failed)
  IN [k \in 1..Len(ok) |-> [name |-> ok[k].name, parameters |-> ok[k].parameters]]

Aborted(r) == \E k \in 1..Len(toolResults[r]) : toolResults[r][k].aborted

\* C30: when the tool loop has run over every request of the reply, the
\* tool calls returned and stored with the assistant message are the
\* requests that ended without an error, in request order; when an argument
\* string does not parse, the loop ends there: the response is the fallback
\* text without tool calls, the requests after it are not executed, and
\* those before it have been.
C30_StoredToolCalls ==
  \A r \in Reqs :
    (pc[r] = "done" /\ response[r].status = 200 /\ toolCalls[r] # <<>>) =>
      LET n == Len(toolResults[r]) IN
      /\ sessionMessages[Len(sessionMessages)] = response[r].body
      /\ \A k \in 1..n : toolResults[r][k].toolCallId = toolCalls[r][k].id
      /\ \A j \in 1..Len(extLog[r]) :
           \E k \in 1..n : toolResults[r][k].toolCallId = extLog[r][j].id
      /\ IF Aborted(r)
         THEN /\ toolResults[r][n].aborted
              /\ toolCalls[r][n].arguments.text # "json"
              /\ \A k \in 1..(n - 1) : ~toolResults[r][k].aborted
              /\ response[r].body.content = getFallbackResponse(UserTexts[msgNo[r]])
              /\ response[r].body.tool_calls = <<>>
         ELSE /\ n = Len(toolCalls[r])
              /\ response[r].body.tool_calls = Succeeded(r)

\* Two requests: the first has called the calendar, the second's arguments
\* do not parse, and the response is the fallback text.
C30_Witness ==
  \E r \in Reqs :
    /\ pc[r] = "done"
    /\ Len(toolCalls[r]) = 2
    /\ Len(toolResults[r]) = 2
    /\ ~toolResults[r][1].failed
    /\ Len(extLog[r]) = 1
    /\ extLog[r][1].id = toolCalls[r][1].id
    /\ toolResults[r][2].aborted
    /\ response[r].body.tool_calls = <<>>
====
